---------------------------- MODULE Spec2Model ----------------------------
(***************************************************************************)
(* Model of scripts/convert_icon.py: a one-shot command line tool that     *)
(* centres a source image on a 1024x1024 transparent canvas, optionally    *)
(* applies a rounded-corner alpha mask, and writes six PNG files into      *)
(* src-tauri/icons.                                                        *)
(*                                                                         *)
(* The state is the file system (source file, output directory, output     *)
(* files), the process's locals (args, img, canvas, loop index), its       *)
(* standard output and exit code, and the position of the process in       *)
(* main().  Several invocations may follow each other on the same file     *)
(* system.                                                                 *)
(*                                                                         *)
(* Images are records [size, rgb, alpha].  rgb and alpha are symbolic:     *)
(* the sequence of operations that produced the channel.  Two images with  *)
(* equal records have equal pixels.  AlphaAt evaluates the alpha channel   *)
(* at one pixel for the channels whose pixels are computable without       *)
(* resampling.                                                             *)
(***************************************************************************)
EXTENDS Integers, Sequences, FiniteSets, TLC

VARIABLES
  pc,        \* position of the process in main(), or how it ended
  args,      \* argparse namespace: [src, rounded, radius]
  fs,        \* file system: [src, dir, files]
  img,       \* local img (line 34, resized in place at line 40)
  canvas,    \* local canvas (lines 38, 43, 57)
  idx,       \* position of the for loop of line 61 in SIZES
  written,   \* names saved by this run, in order (history)
  stdout,    \* lines printed by this run
  exitCode,  \* process exit status, -1 while it runs
  cause,     \* why the run ended abnormally (history)
  run,       \* number of invocations started
  faults,    \* number of environment faults injected so far
  fs0,       \* file system when this run started (history)
  prev,      \* summary of the previous run (history)
  arg_im0,   \* apply_rounded in isolation: the image before the call (history)
  arg_im,    \* apply_rounded in isolation: the image object passed in
  arg_r,     \* apply_rounded in isolation: the radius passed in
  ret_out    \* apply_rounded in isolation: the returned image

maskVars == <<arg_im0, arg_im, arg_r, ret_out>>
vars == <<pc, args, fs, img, canvas, idx, written, stdout, exitCode,
          cause, run, faults, fs0, prev, arg_im0, arg_im, arg_r, ret_out>>

----------------------------------------------------------------------------
(* Bounds of the model *)

MaxRuns == 2        \* invocations in one behaviour
MaxFaults == 1      \* environment faults (I/O errors) in one behaviour
MaxRadius == 100    \* largest explicit --radius tried
MaxPix == 5         \* largest edge of the images apply_rounded is tried on
MaxR == 3           \* largest radius apply_rounded is tried with
MaxDim == 2050      \* largest source width/height of the wide composition runs

----------------------------------------------------------------------------
(* Program constants *)

SIZES == <<32, 128, 256, 512, 1024>>
base_size == 1024
out_dir == "src-tauri/icons"

Abs(n) == IF n < 0 THEN -n ELSE n
Max(a, b) == IF a >= b THEN a ELSE b

Op(name, params) == [op |-> name, p |-> params]
NoImg == [size |-> <<0, 0>>, rgb |-> <<>>, alpha |-> <<>>]

(* Image.new('RGBA', (n, n), (0, 0, 0, 0)) *)
NewCanvas(n) ==
  [size |-> <<n, n>>,
   rgb |-> <<Op("new", <<n, n>>)>>,
   alpha |-> <<Op("uniform", <<0>>)>>]

(* Image.open(src_path).convert('RGBA') of a readable source of size sz *)
OpenRGBA(sz) ==
  [size |-> sz, rgb |-> <<Op("src", sz)>>, alpha |-> <<Op("src", sz)>>]

Floor(num, den) == num \div den
Ceil(num, den) == IF num % den = 0 THEN num \div den ELSE (num \div den) + 1

(* Pillow's round_aspect of thumbnail(): of the floor f and the ceiling c
   of the ideal length the one whose key is smaller, f on a tie, and at
   least 1.  kf and kc are the keys of f and c, both multiplied by the same
   positive factor. *)
RoundAspect(f, c, kf, kc) == Max(IF kf <= kc THEN f ELSE c, 1)

(* Pillow's keys: for a width n, abs(aspect - n / by); for a height n,
   0 if n == 0 else abs(aspect - bx / n), with aspect = w / h.  KeyX is the
   first times h * by; KeyY the second times h * n * m, m the other
   candidate (when the floor is 0 its key 0 wins whatever the other is). *)
KeyX(w, h, by, n) == Abs(w * by - n * h)
KeyY(w, h, bx, n, m) ==
  IF n = 0 THEN 0 ELSE IF m = 0 THEN 1 ELSE Abs(w * n - bx * h) * m

ThumbSizeUpscaling(w, h, bx, by) ==
  IF bx * h >= w * by
  THEN LET f == Floor(by * w, h)
           c == Ceil(by * w, h)
       IN  <<RoundAspect(f, c, KeyX(w, h, by, f), KeyX(w, h, by, c)), by>>
  ELSE LET f == Floor(bx * h, w)
           c == Ceil(bx * h, w)
       IN  <<bx, RoundAspect(f, c, KeyY(w, h, bx, f, c), KeyY(w, h, bx, c, f))>>

(* img.thumbnail((bx, by), LANCZOS): the size the image is reduced to.
   Never enlarges; otherwise fits the box keeping the aspect ratio w/h. *)
ThumbSize(w, h, bx, by) ==
  IF bx >= w /\ by >= h THEN <<w, h>>
  ELSE IF bx * h >= w * by
       THEN LET f == Floor(by * w, h)
                c == Ceil(by * w, h)
            IN  <<RoundAspect(f, c, KeyX(w, h, by, f), KeyX(w, h, by, c)), by>>
       ELSE LET f == Floor(bx * h, w)
                c == Ceil(bx * h, w)
            IN  <<bx, RoundAspect(f, c, KeyY(w, h, bx, f, c),
                                  KeyY(w, h, bx, c, f))>>

thumbnail(im, bx, by) ==
  LET sz == ThumbSize(im.size[1], im.size[2], bx, by)
  IN  IF sz = im.size THEN im
      ELSE [size |-> sz,
            rgb |-> Append(im.rgb, Op("resize", sz)),
            alpha |-> Append(im.alpha, Op("resize", sz))]

(* lines 41-42: x = (base_size - img.width) // 2, likewise y *)
Offset(base, d) == (base - d) \div 2

(* canvas.paste(img, (x, y), img) on the fresh transparent canvas *)
paste(cv, im, x, y) ==
  [size |-> cv.size,
   rgb |-> im.rgb \o <<Op("paste", <<cv.size[1], cv.size[2], x, y>>)>>,
   alpha |-> im.alpha \o <<Op("paste", <<cv.size[1], cv.size[2], x, y>>)>>]

resizeDiscarded(im, s) == im

(* canvas.resize((s, s), LANCZOS): a new image of exactly s by s *)
resize(im, s) ==
  [size |-> <<s, s>>,
   rgb |-> Append(im.rgb, Op("resize", <<s, s>>)),
   alpha |-> Append(im.alpha, Op("resize", <<s, s>>))]

----------------------------------------------------------------------------
(* The rounded-corner mask *)

(* draw.rounded_rectangle([0, 0, w, h], radius=r, fill=255) on an 'L' image
   of size (w, h): whether pixel (x, y) is filled.  Pillow joins the corner
   arcs when the diameter 2r reaches the box (d >= w - 1, then d >= h - 1),
   drawing an ellipse when both are joined.  The rasterisation is the ideal
   one: a pixel in a corner square is filled when it lies within the corner
   circle (ellipse).  Coordinates are doubled so that odd diameters stay
   integral.  The box reaches to x = w and y = h, one past the last pixel,
   as line 50 passes im.size for the far corner. *)
InsideRoundedRect(w, h, r, x, y) ==
  LET d0 == 2 * r
      full_x == d0 >= w - 1
      d1 == IF full_x THEN w ELSE d0
      full_y == d1 >= h - 1
      d2 == IF full_y THEN h ELSE d1
      dX == IF full_x /\ full_y THEN w ELSE d2
      dY == IF full_x /\ full_y THEN h ELSE d2
      cx == IF 2 * x < dX THEN dX - 2 * x
            ELSE IF 2 * x > 2 * w - dX THEN 2 * x - (2 * w - dX) ELSE 0
      cy == IF 2 * y < dY THEN dY - 2 * y
            ELSE IF 2 * y > 2 * h - dY THEN 2 * y - (2 * h - dY) ELSE 0
  IN  \/ cx = 0
      \/ cy = 0
      \/ cx * cx * dY * dY + cy * cy * dX * dX <= dX * dX * dY * dY

(* lines 48-50: mask = Image.new('L', im.size, 0); rounded_rectangle *)
rounded_mask(size, r) == Op("rrect", <<size[1], size[2], r>>)

(* The value of an alpha channel at pixel (x, y); -1 where it depends on
   source pixels or resampling. *)
RECURSIVE AlphaAt(_, _, _)
AlphaAt(alpha, x, y) ==
  IF alpha = <<>> THEN -1
  ELSE LET o == alpha[Len(alpha)]
           m == IF InsideRoundedRect(o.p[1], o.p[2], o.p[3], x, y)
                THEN 255 ELSE 0
       IN  CASE o.op = "uniform" -> o.p[1]
             [] o.op = "checker" -> IF (x + y) % 2 = 0 THEN o.p[1] ELSE o.p[2]
             [] o.op = "rrect" -> m
             [] o.op = "mulrrect" ->
                  (AlphaAt(SubSeq(alpha, 1, Len(alpha) - 1), x, y) * m) \div 255
             [] OTHER -> -1

putalphaMultiplied(im, mask) ==
  [im EXCEPT !.alpha = Append(@, Op("mulrrect", mask.p))]

(* line 52: out.putalpha(mask) replaces the alpha band by the mask *)
putalpha(im, mask) ==
  [im EXCEPT !.alpha = <<mask>>]

(* lines 45-53: apply_rounded(im, r).  arg is the object passed in as it is
   after the call, res the object returned. *)
apply_rounded(im, r) ==
  IF r <= 0 THEN [arg |-> im, res |-> im]
  ELSE [arg |-> im,
        res |-> putalpha(im, rounded_mask(im.size, r))]

AutoRadiusRounded(s) == (s * 2 + 5) \div 10

(* int(s * 0.2): the double 0.2 is 1/5 + e with 0 < e < 2^-56, and s / 5
   has fractional part 0, .2, .4, .6 or .8, so for 0 < s < 2^31 truncation
   of s * 0.2 is the integer quotient of 2s by 10. *)
AutoRadius(s) == (s * 2) \div 10

(* line 56: radius = args.radius if args.radius > 0 else int(base_size * 0.2) *)
CanvasRadius(a) == IF a.radius > 0 THEN a.radius ELSE AutoRadius(base_size)

SizeRadiusScaled(a, s) ==
  IF a.radius > 0 THEN (a.radius * s) \div base_size ELSE AutoRadius(s)

(* line 64: r = args.radius if args.radius > 0 else int(s * 0.2) *)
SizeRadius(a, s) == IF a.radius > 0 THEN a.radius ELSE AutoRadius(s)

----------------------------------------------------------------------------
(* The file system *)

NoFiles == [n \in {} |-> NoImg]
Png(im) == [state |-> "png", img |-> im]
Partial == [state |-> "partial", img |-> NoImg]
Stale == [state |-> "stale", img |-> NoImg]

SizedNamePlain(s) == ToString(s) \o ".png"

(* line 60 and line 66: the file names *)
IconName == "icon.png"
SizedName(s) == ToString(s) \o "x" \o ToString(s) \o ".png"

(* os.path.exists(src_path) *)
exists(f) == f.src.kind # "absent"

makedirsExclusive(f, fault) ==
  IF fault # "none" \/ f.dir # "absent" THEN [ok |-> FALSE, fs |-> f]
  ELSE [ok |-> TRUE, fs |-> [f EXCEPT !.dir = "dir"]]

(* line 31: os.makedirs(out_dir, exist_ok=True).  Raises when the path is
   a regular file or the environment refuses; an existing directory is
   accepted. *)
makedirs(f, fault) ==
  IF fault # "none" \/ f.dir = "file" THEN [ok |-> FALSE, fs |-> f]
  ELSE [ok |-> TRUE, fs |-> [f EXCEPT !.dir = "dir"]]

(* im.save(os.path.join(out_dir, name), 'PNG'): opens the file "w+b" and
   encodes into it.  A fault before the open leaves the file system as it
   was; a fault while writing leaves a truncated file. *)
save(f, name, im, fault) ==
  CASE fault = "none" ->
         [ok |-> TRUE, fs |-> [f EXCEPT !.files = (name :> Png(im)) @@ @]]
    [] fault = "write" ->
         [ok |-> FALSE, fs |-> [f EXCEPT !.files = (name :> Partial) @@ @]]
    [] OTHER -> [ok |-> FALSE, fs |-> f]

----------------------------------------------------------------------------
(* Inputs *)

SrcPath == "./source.png"
Radii == {-1, 0, MaxRadius}
Flags == [src : {SrcPath}, rounded : BOOLEAN, radius : Radii]

NoSource == [kind |-> "absent", size |-> <<0, 0>>]
Corrupt == [kind |-> "corrupt", size |-> <<0, 0>>]
Source(sz) == [kind |-> "image", size |-> sz]

SrcSizes == {<<300, 512>>, <<2000, 1000>>}
StaleFiles == (IconName :> Stale) @@ ("notes.txt" :> Stale)

InitFS ==
  {[src |-> s, dir |-> d, files |-> f] :
     s \in {NoSource, Corrupt} \cup {Source(sz) : sz \in SrcSizes},
     d \in {"absent"}, f \in {NoFiles}}
  \cup
  {[src |-> s, dir |-> d, files |-> f] :
     s \in {NoSource, Corrupt} \cup {Source(sz) : sz \in SrcSizes},
     d \in {"dir"}, f \in {NoFiles, StaleFiles}}
  \cup
  {[src |-> s, dir |-> d, files |-> f] :
     s \in {NoSource} \cup {Source(sz) : sz \in SrcSizes},
     d \in {"file"}, f \in {NoFiles}}

NoPrev == [outcome |-> "none", args |-> [src |-> SrcPath, rounded |-> FALSE, radius |-> 0],
           files |-> NoFiles]

Ended == {"exit1", "done", "crashed"}

(* The environment faults a step may meet *)
FaultChoices(kinds) == {"none"} \cup (IF faults < MaxFaults THEN kinds ELSE {})

RaiseSwallowed(ok, next) == next

(* An exception nothing catches ends main(): the step after a call that
   raised is never reached. *)
Raise(ok, next) == IF ok THEN next ELSE "crashed"

----------------------------------------------------------------------------
(* The process *)

Init ==
  /\ pc = "idle"
  /\ args = NoPrev.args
  /\ fs \in InitFS
  /\ img = NoImg
  /\ canvas = NoImg
  /\ idx = 1
  /\ written = <<>>
  /\ stdout = <<>>
  /\ exitCode = -1
  /\ cause = "none"
  /\ run = 0
  /\ faults = 0
  /\ fs0 = fs
  /\ prev = NoPrev
  /\ arg_im0 = NoImg
  /\ arg_im = NoImg
  /\ arg_r = 0
  /\ ret_out = NoImg

(* The command is started (again) on the file system as it is. *)
Invoke(a) ==
  /\ pc \in {"idle"} \cup Ended
  /\ run < MaxRuns
  /\ run' = run + 1
  /\ args' = a
  /\ pc' = "parsed"
  /\ img' = NoImg
  /\ canvas' = NoImg
  /\ idx' = 1
  /\ written' = <<>>
  /\ stdout' = <<>>
  /\ exitCode' = -1
  /\ cause' = "none"
  /\ fs0' = fs
  /\ prev' = [outcome |-> pc, args |-> args, files |-> fs.files]
  /\ UNCHANGED <<fs, faults>>
  /\ UNCHANGED maskVars

CheckSourceAfterMakedirs ==
  /\ pc = "parsed"
  /\ IF ~exists(fs)
     THEN /\ stdout' = Append(stdout, <<"Source not found: ", args.src>>)
          /\ pc' = "exit1"
          /\ exitCode' = 1
          /\ cause' = "missing"
          /\ fs' = makedirs(fs, "none").fs
     ELSE /\ pc' = "mkdir"
          /\ UNCHANGED <<stdout, exitCode, cause, fs>>
  /\ UNCHANGED <<args, img, canvas, idx, written, run, faults, fs0, prev>>
  /\ UNCHANGED maskVars

(* lines 25-28 *)
CheckSource ==
  /\ pc = "parsed"
  /\ IF ~exists(fs)
     THEN /\ stdout' = Append(stdout, <<"Source not found: ", args.src>>)
          /\ pc' = "exit1"
          /\ exitCode' = 1
          /\ cause' = "missing"
     ELSE /\ pc' = "mkdir"
          /\ UNCHANGED <<stdout, exitCode, cause>>
  /\ UNCHANGED <<args, fs, img, canvas, idx, written, run, faults, fs0, prev>>
  /\ UNCHANGED maskVars

(* lines 30-31 *)
Makedirs ==
  /\ pc = "mkdir"
  /\ \E fault \in FaultChoices({"io"}) :
       LET m == makedirs(fs, fault)
       IN  /\ fs' = m.fs
           /\ pc' = Raise(m.ok, "load")
           /\ exitCode' = IF m.ok THEN exitCode ELSE 1
           /\ cause' = IF m.ok THEN cause
                       ELSE IF fault = "none" THEN "exists" ELSE "io"
           /\ faults' = IF fault = "none" THEN faults ELSE faults + 1
  /\ UNCHANGED <<args, img, canvas, idx, written, stdout, run, fs0, prev>>
  /\ UNCHANGED maskVars

(* line 34 *)
Load ==
  /\ pc = "load"
  /\ IF fs.src.kind = "image"
     THEN /\ img' = OpenRGBA(fs.src.size)
          /\ pc' = "compose"
          /\ UNCHANGED <<exitCode, cause>>
     ELSE /\ pc' = Raise(FALSE, "compose")
          /\ exitCode' = 1
          /\ cause' = "decode"
          /\ UNCHANGED img
  /\ UNCHANGED <<args, fs, canvas, idx, written, stdout, run, faults, fs0, prev>>
  /\ UNCHANGED maskVars

(* lines 37-43 *)
Compose ==
  /\ pc = "compose"
  /\ LET small == thumbnail(img, base_size, base_size)
         x == Offset(base_size, small.size[1])
         y == Offset(base_size, small.size[2])
     IN  /\ img' = small
         /\ canvas' = paste(NewCanvas(base_size), small, x, y)
  /\ pc' = "round"
  /\ UNCHANGED <<args, fs, idx, written, stdout, exitCode, cause, run, faults,
                 fs0, prev>>
  /\ UNCHANGED maskVars

(* lines 55-57 *)
Round ==
  /\ pc = "round"
  /\ canvas' = IF args.rounded
               THEN apply_rounded(canvas, CanvasRadius(args)).res
               ELSE canvas
  /\ pc' = "save_icon"
  /\ UNCHANGED <<args, fs, img, idx, written, stdout, exitCode, cause, run,
                 faults, fs0, prev>>
  /\ UNCHANGED maskVars

(* line 60 *)
SaveIcon ==
  /\ pc = "save_icon"
  /\ \E fault \in FaultChoices({"open", "write"}) :
       LET s == save(fs, IconName, canvas, fault)
       IN  /\ fs' = s.fs
           /\ written' = IF s.ok THEN Append(written, IconName) ELSE written
           /\ pc' = Raise(s.ok, "loop")
           /\ exitCode' = IF s.ok THEN exitCode ELSE 1
           /\ cause' = IF s.ok THEN cause ELSE "io"
           /\ faults' = IF fault = "none" THEN faults ELSE faults + 1
  /\ UNCHANGED <<args, img, canvas, idx, stdout, run, fs0, prev>>
  /\ UNCHANGED maskVars

(* lines 61-66: one iteration of the loop over SIZES *)
SaveSize ==
  /\ pc = "loop"
  /\ idx <= Len(SIZES)
  /\ \E fault \in FaultChoices({"open", "write"}) :
       LET s == SIZES[idx]
           resized == resize(canvas, s)
           masked == IF args.rounded
                     THEN apply_rounded(resized, SizeRadius(args, s)).res
                     ELSE resized
           sv == save(fs, SizedName(s), masked, fault)
       IN  /\ fs' = sv.fs
           /\ written' = IF sv.ok THEN Append(written, SizedName(s))
                         ELSE written
           /\ pc' = Raise(sv.ok, IF idx = Len(SIZES) THEN "print" ELSE "loop")
           /\ idx' = IF sv.ok THEN idx + 1 ELSE idx
           /\ exitCode' = IF sv.ok THEN exitCode ELSE 1
           /\ cause' = IF sv.ok THEN cause ELSE "io"
           /\ faults' = IF fault = "none" THEN faults ELSE faults + 1
  /\ UNCHANGED <<args, img, canvas, stdout, run, fs0, prev>>
  /\ UNCHANGED maskVars

(* line 68, and the normal end of main() *)
PrintDone ==
  /\ pc = "print"
  /\ stdout' = Append(stdout, <<"Wrote icons to ", out_dir>>)
  /\ pc' = "done"
  /\ exitCode' = 0
  /\ UNCHANGED <<args, fs, img, canvas, idx, written, cause, run, faults,
                 fs0, prev>>
  /\ UNCHANGED maskVars

Next ==
  \/ \E a \in Flags : Invoke(a)
  \/ CheckSource
  \/ Makedirs
  \/ Load
  \/ Compose
  \/ Round
  \/ SaveIcon
  \/ SaveSize
  \/ PrintDone

Spec == Init /\ [][Next]_vars

----------------------------------------------------------------------------
(* Composition alone, over a wide range of source sizes *)

WideDims ==
  {d \in 1..MaxDim :
     \/ d <= 3
     \/ d >= 1020 /\ d <= 1028
     \/ d % 250 = 0
     \/ d \in {1280, 1536}
     \/ d >= MaxDim - 2}

InitCompose ==
  /\ pc = "idle"
  /\ args = NoPrev.args
  /\ fs \in {[src |-> Source(<<w, h>>), dir |-> "dir", files |-> NoFiles] :
               w \in WideDims, h \in WideDims}
  /\ img = NoImg
  /\ canvas = NoImg
  /\ idx = 1
  /\ written = <<>>
  /\ stdout = <<>>
  /\ exitCode = -1
  /\ cause = "none"
  /\ run = 0
  /\ faults = 0
  /\ fs0 = fs
  /\ prev = NoPrev
  /\ arg_im0 = NoImg
  /\ arg_im = NoImg
  /\ arg_r = 0
  /\ ret_out = NoImg

NextCompose ==
  \/ \E a \in Flags : Invoke(a)
  \/ CheckSource
  \/ Makedirs
  \/ Load
  \/ Compose

SpecCompose == InitCompose /\ [][NextCompose]_vars

----------------------------------------------------------------------------
(* apply_rounded alone, on small images whose alpha is known per pixel *)

TestAlphas ==
  {Op("uniform", <<v>>) : v \in {0, 128, 255}}
  \cup {Op("checker", <<0, 255>>), Op("checker", <<255, 77>>)}

TestImages ==
  {[size |-> <<w, h>>, rgb |-> <<Op("src", <<w, h>>)>>, alpha |-> <<a>>] :
     w \in 1..MaxPix, h \in 1..MaxPix, a \in TestAlphas}

Pixels(im) == (0..(im.size[1] - 1)) \X (0..(im.size[2] - 1))

InitMask ==
  /\ pc = "call"
  /\ args = NoPrev.args
  /\ fs = [src |-> NoSource, dir |-> "absent", files |-> NoFiles]
  /\ img = NoImg
  /\ canvas = NoImg
  /\ idx = 1
  /\ written = <<>>
  /\ stdout = <<>>
  /\ exitCode = -1
  /\ cause = "none"
  /\ run = 0
  /\ faults = 0
  /\ fs0 = fs
  /\ prev = NoPrev
  /\ arg_im \in TestImages
  /\ arg_im0 = arg_im
  /\ arg_r \in 0..MaxR
  /\ ret_out = NoImg

(* out = apply_rounded(im, r) *)
ApplyRounded ==
  /\ pc = "call"
  /\ LET a == apply_rounded(arg_im, arg_r)
     IN  /\ arg_im' = a.arg
         /\ ret_out' = a.res
  /\ pc' = "returned"
  /\ UNCHANGED <<args, fs, img, canvas, idx, written, stdout, exitCode, cause,
                 run, faults, fs0, prev, arg_im0, arg_r>>

NextMask == ApplyRounded

SpecMask == InitMask /\ [][NextMask]_vars

----------------------------------------------------------------------------
(* What the claims speak of *)

ClaimedOrder ==
  <<"icon.png", "32x32.png", "128x128.png", "256x256.png", "512x512.png",
    "1024x1024.png">>
ClaimedNames == {ClaimedOrder[i] : i \in 1..Len(ClaimedOrder)}
ClaimedEdge ==
  ("icon.png" :> 1024) @@ ("32x32.png" :> 32) @@ ("128x128.png" :> 128)
  @@ ("256x256.png" :> 256) @@ ("512x512.png" :> 512)
  @@ ("1024x1024.png" :> 1024)

WrittenNames == {written[i] : i \in 1..Len(written)}
Printed(text) == \E i \in 1..Len(stdout) : stdout[i][1] = text

(* The radius of the corner mask an image carries, 0 if it carries none *)
MaskRadiusOf(im) ==
  IF im.alpha # <<>> /\ im.alpha[Len(im.alpha)].op = "rrect"
  THEN im.alpha[Len(im.alpha)].p[3]
  ELSE 0

(* C1: when the source path does not exist the run prints "Source not
   found", exits with code 1 and has changed nothing on the file system:
   no output file and no output directory is created; and a run on a
   missing source ends in no other way. *)
C1_MissingSource ==
  /\ pc = "exit1" =>
       /\ exitCode = 1
       /\ Printed("Source not found: ")
       /\ written = <<>>
       /\ fs = fs0
  /\ (fs0.src.kind = "absent" /\ pc \notin {"idle", "parsed", "call", "returned"})
       => pc = "exit1"

C1_Witness ==
  /\ pc = "exit1"
  /\ fs0.src.kind = "absent"
  /\ fs0.dir = "absent"
  /\ stdout = <<<<"Source not found: ", SrcPath>>>>

(* C2: a run that completes successfully has written exactly the six
   files icon.png, 32x32.png, 128x128.png, 256x256.png, 512x512.png and
   1024x1024.png into the output directory, each once, and has created or
   changed no file of another name. *)
C2_SixFiles ==
  pc = "done" =>
    /\ Len(written) = 6
    /\ WrittenNames = ClaimedNames
    /\ fs.dir = "dir"
    /\ \A n \in ClaimedNames :
         n \in DOMAIN fs.files /\ fs.files[n].state = "png"
    /\ DOMAIN fs.files \ DOMAIN fs0.files \subseteq ClaimedNames
    /\ \A n \in DOMAIN fs0.files \ ClaimedNames : fs.files[n] = fs0.files[n]

C2_Witness ==
  /\ pc = "done"
  /\ exitCode = 0
  /\ "notes.txt" \in DOMAIN fs.files
  /\ Len(written) = 6

(* C3: every file a run has written has the dimensions its name states:
   s by s for {s}x{s}.png and 1024 by 1024 for icon.png, with and without
   the rounded-corner mask. *)
C3_Dimensions ==
  \A i \in 1..Len(written) :
    /\ written[i] \in DOMAIN ClaimedEdge
    /\ written[i] \in DOMAIN fs.files
    /\ fs.files[written[i]].img.size =
         <<ClaimedEdge[written[i]], ClaimedEdge[written[i]]>>

C3_Witness ==
  /\ pc = "done"
  /\ args.rounded
  /\ fs.src.size = <<2000, 1000>>
  /\ fs.files["32x32.png"].img.size = <<32, 32>>
  /\ MaskRadiusOf(fs.files["32x32.png"].img) > 0

(* C4 as stated: with --rounded and --radius 0 the radius used for the 512
   and the 1024 output is 0.2 * s rounded to the nearest integer r, that
   is |5r - s| <= 2. *)
C4_AutoRadiusRounds ==
  (args.rounded /\ args.radius = 0) =>
    \A n \in WrittenNames \cap {"512x512.png", "1024x1024.png"} :
      Abs(5 * MaskRadiusOf(fs.files[n].img) - ClaimedEdge[n]) <= 2

(* C4 amended: with --rounded and --radius 0 the radius used for an output
   of edge s, and for the 1024 canvas, is 0.2 * s truncated to an integer
   r, that is 5r <= s < 5(r + 1): 102 for 512 and 204 for 1024. *)
C4_AutoRadiusTruncates ==
  (args.rounded /\ args.radius = 0) =>
    \A n \in WrittenNames :
      LET r == MaskRadiusOf(fs.files[n].img)
      IN  5 * r <= ClaimedEdge[n] /\ ClaimedEdge[n] < 5 * (r + 1)

C4_Witness ==
  /\ pc = "done"
  /\ args.rounded
  /\ args.radius = 0
  /\ MaskRadiusOf(fs.files["512x512.png"].img) = 102
  /\ MaskRadiusOf(fs.files["1024x1024.png"].img) = 204
  /\ MaskRadiusOf(fs.files["icon.png"].img) = 204

(* C5: with --rounded and an explicit --radius R > 0 the mask radius is R
   itself for the 1024 canvas and for every one of the five sized
   outputs. *)
C5_ExplicitRadiusVerbatim ==
  (args.rounded /\ args.radius > 0) =>
    /\ \A n \in WrittenNames : MaskRadiusOf(fs.files[n].img) = args.radius
    /\ pc \in {"save_icon", "loop", "print", "done"}
         => MaskRadiusOf(canvas) = args.radius

C5_Witness ==
  /\ pc = "done"
  /\ args.rounded
  /\ args.radius > 1
  /\ \A n \in ClaimedNames : MaskRadiusOf(fs.files[n].img) = args.radius

(* C6: with --rounded and an explicit --radius R > 0 the radius applied to
   an output of edge s < 1024 is R scaled in proportion to s, R * s / 1024
   (to within a pixel), as the --radius help text says. *)
C6_ExplicitRadiusScaled ==
  (args.rounded /\ args.radius > 0) =>
    \A n \in WrittenNames :
      ClaimedEdge[n] < 1024 =>
        Abs(MaskRadiusOf(fs.files[n].img) * 1024 - args.radius * ClaimedEdge[n])
          < 1024

(* C7: the image composited on the 1024x1024 canvas is never larger than
   the source nor than the canvas, is the source itself when that fits,
   keeps the source's aspect ratio to within a pixel otherwise, and is
   pasted at ((1024 - w') // 2, (1024 - h') // 2): inside the canvas, with
   opposite margins differing by at most 1. *)
C7_Composite ==
  pc = "round" =>
    LET w == fs.src.size[1]
        h == fs.src.size[2]
        w2 == img.size[1]
        h2 == img.size[2]
        at == canvas.rgb[Len(canvas.rgb)].p
        x == at[3]
        y == at[4]
    IN  /\ canvas.size = <<1024, 1024>>
        /\ w2 >= 1 /\ h2 >= 1
        /\ w2 <= w /\ w2 <= 1024 /\ h2 <= h /\ h2 <= 1024
        /\ (w <= 1024 /\ h <= 1024) => (w2 = w /\ h2 = h)
        /\ (w > 1024 \/ h > 1024) =>
             /\ w2 = 1024 \/ h2 = 1024
             /\ Abs(w2 * h - h2 * w) < (IF w >= h THEN w ELSE h)
        /\ 2 * x <= 1024 - w2 /\ 1024 - w2 <= 2 * x + 1
        /\ 2 * y <= 1024 - h2 /\ 1024 - h2 <= 2 * y + 1
        /\ x >= 0 /\ y >= 0 /\ x + w2 <= 1024 /\ y + h2 <= 1024

C7_Witness ==
  /\ pc = "round"
  /\ fs.src.size = <<2000, 1000>>
  /\ img.size = <<1024, 512>>
  /\ canvas.rgb[Len(canvas.rgb)].p = <<1024, 1024, 0, 256>>

(* C8: a run that follows a successful run with the same source and flags
   is not stopped by the directory or the files being there already, writes
   all six files again, and leaves the output directory as the first run
   left it. *)
C8_Idempotent ==
  (run >= 2 /\ prev.outcome = "done" /\ prev.args = args) =>
    /\ pc \in {"crashed", "exit1"} => cause = "io"
    /\ pc = "done" =>
         /\ Len(written) = 6
         /\ fs.dir = "dir"
         /\ fs.files = prev.files

C8_Witness ==
  /\ run >= 2
  /\ prev.outcome = "done"
  /\ prev.args = args
  /\ pc = "done"
  /\ args.rounded
  /\ fs.files = prev.files

(* C9: the files are written in the order icon.png, 32x32.png, 128x128.png,
   256x256.png, 512x512.png, 1024x1024.png, so what a run has written is
   always a prefix of that list; a failure ends the run at once (exit code
   1, nothing retried) and leaves what was written in place; the success
   message appears only once all six are written. *)
C9_PrefixOrder ==
  /\ Len(written) <= Len(ClaimedOrder)
  /\ \A i \in 1..Len(written) :
       /\ written[i] = ClaimedOrder[i]
       /\ written[i] \in DOMAIN fs.files
       /\ fs.files[written[i]].state = "png"
  /\ Printed("Wrote icons to ") => Len(written) = 6
  /\ cause # "none" =>
       /\ pc \in {"crashed", "exit1"}
       /\ exitCode = 1
       /\ ~Printed("Wrote icons to ")
  /\ pc = "crashed" => Len(written) < 6

C9_Witness ==
  /\ pc = "crashed"
  /\ cause = "io"
  /\ written = <<"icon.png", "32x32.png", "128x128.png">>
  /\ "256x256.png" \in DOMAIN fs.files
  /\ fs.files["256x256.png"].state = "partial"

(* C10: for r > 0 apply_rounded returns an image of the same size and
   colours whose alpha is 255 at every pixel inside the rounded rectangle
   and 0 at every pixel outside it, whatever the alpha of the input there,
   and the image passed in is as it was. *)
C10_MaskOverwritesAlpha ==
  (pc = "returned" /\ arg_r > 0) =>
    /\ arg_im = arg_im0
    /\ ret_out.size = arg_im0.size
    /\ ret_out.rgb = arg_im0.rgb
    /\ \A q \in Pixels(arg_im0) :
         AlphaAt(ret_out.alpha, q[1], q[2]) =
           IF InsideRoundedRect(arg_im0.size[1], arg_im0.size[2], arg_r,
                                q[1], q[2])
           THEN 255 ELSE 0

C10_Witness ==
  /\ pc = "returned"
  /\ arg_r > 0
  /\ \E q \in Pixels(arg_im0) :
       /\ InsideRoundedRect(arg_im0.size[1], arg_im0.size[2], arg_r, q[1], q[2])
       /\ AlphaAt(arg_im0.alpha, q[1], q[2]) = 0
       /\ AlphaAt(ret_out.alpha, q[1], q[2]) = 255
  /\ \E q \in Pixels(arg_im0) :
       /\ ~InsideRoundedRect(arg_im0.size[1], arg_im0.size[2], arg_r, q[1], q[2])
       /\ AlphaAt(arg_im0.alpha, q[1], q[2]) = 255
       /\ AlphaAt(ret_out.alpha, q[1], q[2]) = 0

============================================================================
